---- MODULE Spec2Model ----
(***************************************************************************)
(* A model of goecs: the sparse-set component storage, the registry that   *)
(* keys one sparse set per component type, the typed iteration helpers     *)
(* Iterate2/3/4 and the reflection based IterateReflective.                *)
(*                                                                         *)
(* An entity handle (Goent, a uint64) is the record [top, low]: top is     *)
(* bit 63 and low is the value of bits 0..62, so the handle's value is     *)
(* top * 2^63 + low.  The conversion int(entity) of the source (a 64-bit   *)
(* int) is negative exactly when top = 1 and equals low when top = 0.      *)
(* Component storage is []*T: components holds addresses into a per-type   *)
(* heap, so overwriting through an address and appending a new address     *)
(* are different things, as in the source.                                 *)
(***************************************************************************)
EXTENDS Integers, Sequences, FiniteSets, TLC

VARIABLES nextEntity, storages, heap, ret, held

vars == <<nextEntity, storages, heap, ret, held>>

----------------------------------------------------------------------------
(* Bounds of the model *)

MaxCreated == 2
MaxParams == 3

(* Program constants *)

invalidIndex == -1
alignment == 256

----------------------------------------------------------------------------
(* Inputs *)

Types == {"A", "B"}

H(n) == [top |-> 0, low |-> n]

\* 2^63: the smallest handle whose conversion to int is negative
WideHandle == [top |-> 1, low |-> 0]

StoredHandles == {H(0), H(alignment)}

Handles == StoredHandles \cup {WideHandle}

\* the inputs of the one-type specification: one type, one more handle
SetTypes == {"A"}

SetHandles == Handles \cup {H(1)}

\* component payloads
Values == {1, 2}

Ptrs == 1..Cardinality(SetHandles)

Nil == 0

NoSet == [absent |-> TRUE]

NoHandle == [top |-> 0, low |-> -1]

\* a caller that keeps no component reference
NoRef == [T |-> "", e |-> NoHandle, ptr |-> Nil, live |-> FALSE, val |-> Nil, removed |-> FALSE]

----------------------------------------------------------------------------
(* Conversions and helpers of the sparse set *)

\* int(entity) < 0
intNegative(entity) == entity.top = 1

\* int(entity), for a handle whose conversion is not negative
int(entity) == entity.low

nextAlignedCapacity(n) ==
  IF n % alignment = 0 THEN n
  ELSE ((n \div alignment) + 1) * alignment

\* a Go slice index i (from 0) is in range of the sequence s
InRange(i, s) == i >= 0 /\ i < Len(s)

\* s[i] of Go, for an index in range
At(s, i) == s[i + 1]

(* The sparse index, a []int, is held as its length and its entries other   *)
(* than invalidIndex: [len, at], where at maps a slice index to the entry   *)
(* stored there and every index of 0..len-1 outside DOMAIN at holds         *)
(* invalidIndex.                                                            *)

\* len(sparse)
SparseLen(sparse) == sparse.len

\* sparse[i], for an index in range
SparseAt(sparse, i) == IF i \in DOMAIN sparse.at THEN sparse.at[i] ELSE invalidIndex

\* sparse[i] = x, for an index in range
SparseStore(sparse, i, x) ==
  [len |-> sparse.len,
   at |-> [j \in (IF x = invalidIndex THEN DOMAIN sparse.at \ {i} ELSE DOMAIN sparse.at \cup {i})
             |-> IF j = i THEN x ELSE sparse.at[j]]]

\* make([]int, n) with every entry set to invalidIndex
MakeSparse(n) == [len |-> n, at |-> [j \in {} |-> invalidIndex]]

\* a copy that was left out
CopyNothing(dst, src) == dst

\* copy(dst, src): the first min(len(dst), len(src)) entries of src over dst
CopySparse(dst, src) ==
  LET n == IF dst.len < src.len THEN dst.len ELSE src.len
      from == {j \in DOMAIN src.at : j < n}
      kept == {j \in DOMAIN dst.at : j >= n}
  IN [len |-> dst.len,
      at |-> [j \in from \cup kept |-> IF j \in from THEN src.at[j] ELSE dst.at[j]]]

NewSparseSet ==
  [dense |-> <<>>,
   components |-> <<>>,
   sparse |-> MakeSparse(alignment)]

\* the address of a new variable: one no live component has
NewPtr(hp) == CHOOSE p \in Ptrs : hp[p] = Nil /\ \A q \in Ptrs : hp[q] = Nil => p <= q

\* int(entity) >= len(ss.sparse)
BeyondSparse(ss, entity) == ~intNegative(entity) /\ int(entity) >= SparseLen(ss.sparse)

\* ss.sparse[int(entity)] is an index out of range
SparseIndexPanics(sparse, entity) ==
  intNegative(entity) \/ int(entity) >= SparseLen(sparse)

\* the sparse index after the growth step of Emplace
GrowSparse(ss, entity) ==
  IF BeyondSparse(ss, entity)
  THEN LET newSize == nextAlignedCapacity(int(entity) + 1)
       IN CopySparse(MakeSparse(newSize), ss.sparse)
  ELSE ss.sparse

\* an Emplace without the branch for an entity that is already present
EmplaceAlwaysAppend(ss, hp, entity, comp) ==
  LET grown == [ss EXCEPT !.sparse = GrowSparse(ss, entity)]
  IN IF SparseIndexPanics(grown.sparse, entity)
     THEN [set |-> grown, heap |-> hp, panicked |-> TRUE]
     ELSE LET index == Len(grown.dense)
              p == NewPtr(hp)
          IN [set |-> [dense |-> Append(grown.dense, entity),
                       components |-> Append(grown.components, p),
                       sparse |-> SparseStore(grown.sparse, int(entity), index)],
              heap |-> [hp EXCEPT ![p] = comp],
              panicked |-> FALSE]

\* an Emplace that stores the address of a new variable for an entity that
\* is already present (ss.components[i] = &comp)
EmplaceNewSlot(ss, hp, entity, comp) ==
  LET grown == [ss EXCEPT !.sparse = GrowSparse(ss, entity)]
  IN IF SparseIndexPanics(grown.sparse, entity)
     THEN [set |-> grown, heap |-> hp, panicked |-> TRUE]
     ELSE LET at == SparseAt(grown.sparse, int(entity))
              p == NewPtr(hp)
          IN IF at # invalidIndex
             THEN [set |-> [grown EXCEPT !.components[at + 1] = p],
                   heap |-> [hp EXCEPT ![p] = comp, ![At(grown.components, at)] = Nil],
                   panicked |-> FALSE]
             ELSE [set |-> [dense |-> Append(grown.dense, entity),
                            components |-> Append(grown.components, p),
                            sparse |-> SparseStore(grown.sparse, int(entity), Len(grown.dense))],
                   heap |-> [hp EXCEPT ![p] = comp],
                   panicked |-> FALSE]

\* SparseSet.Emplace: the set and heap after the call, and whether it panicked
Emplace(ss, hp, entity, comp) ==
  LET grown == [ss EXCEPT !.sparse = GrowSparse(ss, entity)]
  IN IF SparseIndexPanics(grown.sparse, entity)
     THEN [set |-> grown, heap |-> hp, panicked |-> TRUE]
     ELSE LET at == SparseAt(grown.sparse, int(entity))
          IN IF at # invalidIndex
             THEN IF ~InRange(at, grown.components)
                  THEN [set |-> grown, heap |-> hp, panicked |-> TRUE]
                  ELSE [set |-> grown,
                        heap |-> [hp EXCEPT ![At(grown.components, at)] = comp],
                        panicked |-> FALSE]
             ELSE LET index == Len(grown.dense)
                      p == NewPtr(hp)
                  IN [set |-> [dense |-> Append(grown.dense, entity),
                               components |-> Append(grown.components, p),
                               sparse |-> SparseStore(grown.sparse, int(entity), index)],
                      heap |-> [hp EXCEPT ![p] = comp],
                      panicked |-> FALSE]

\* SparseSet.Get: found, the address returned, and whether it panicked
Get(ss, entity) ==
  IF BeyondSparse(ss, entity)
  THEN [found |-> FALSE, ptr |-> Nil, panicked |-> FALSE]
  ELSE IF SparseIndexPanics(ss.sparse, entity)
  THEN [found |-> FALSE, ptr |-> Nil, panicked |-> TRUE]
  ELSE IF SparseAt(ss.sparse, int(entity)) = invalidIndex
  THEN [found |-> FALSE, ptr |-> Nil, panicked |-> FALSE]
  ELSE IF ~InRange(SparseAt(ss.sparse, int(entity)), ss.components)
  THEN [found |-> FALSE, ptr |-> Nil, panicked |-> TRUE]
  ELSE [found |-> TRUE,
        ptr |-> At(ss.components, SparseAt(ss.sparse, int(entity))),
        panicked |-> FALSE]

\* the addresses a set's components hold
Live(ss) == {ss.components[i] : i \in 1..Len(ss.components)}

\* the heap with the cells no component refers to released
Collect(ss, hp) == [p \in Ptrs |-> IF p \in Live(ss) THEN hp[p] ELSE Nil]

\* a removal that marks the entity absent before it records the moved one
RemoveSparseMarkFirst(sparse, entity, lastEntity, index) ==
  SparseStore(SparseStore(sparse, int(entity), invalidIndex), int(lastEntity), index)

\* the two writes Remove makes to the sparse index:
\* sparse[lastEntity] = index, then sparse[entity] = invalidIndex
RemoveSparse(sparse, entity, lastEntity, index) ==
  SparseStore(SparseStore(sparse, int(lastEntity), index), int(entity), invalidIndex)

\* a Remove that moves the last entity's handle but not its component
RemoveMovesHandleOnly(ss, hp, entity) ==
  IF BeyondSparse(ss, entity) \/ SparseIndexPanics(ss.sparse, entity)
     \/ SparseAt(ss.sparse, int(entity)) = invalidIndex
  THEN [set |-> ss, heap |-> hp, panicked |-> ~BeyondSparse(ss, entity) /\ intNegative(entity)]
  ELSE LET index == SparseAt(ss.sparse, int(entity))
           lastIndex == Len(ss.dense) - 1
           lastEntity == At(ss.dense, lastIndex)
           dense1 == [ss.dense EXCEPT ![index + 1] = lastEntity]
           after == [dense |-> SubSeq(dense1, 1, lastIndex),
                     components |-> SubSeq(ss.components, 1, lastIndex),
                     sparse |-> RemoveSparse(ss.sparse, entity, lastEntity, index)]
       IN [set |-> after, heap |-> Collect(after, hp), panicked |-> FALSE]

\* a Remove that copies the last component's value into the removed
\* entity's variable (*ss.components[index] = *ss.components[lastIndex])
RemoveCopiesValue(ss, hp, entity) ==
  IF BeyondSparse(ss, entity) \/ SparseIndexPanics(ss.sparse, entity)
     \/ SparseAt(ss.sparse, int(entity)) = invalidIndex
  THEN [set |-> ss, heap |-> hp, panicked |-> ~BeyondSparse(ss, entity) /\ intNegative(entity)]
  ELSE LET index == SparseAt(ss.sparse, int(entity))
           lastIndex == Len(ss.dense) - 1
           lastEntity == At(ss.dense, lastIndex)
           dense1 == [ss.dense EXCEPT ![index + 1] = lastEntity]
           hp1 == [hp EXCEPT ![At(ss.components, index)] = hp[At(ss.components, lastIndex)]]
           after == [dense |-> SubSeq(dense1, 1, lastIndex),
                     components |-> SubSeq(ss.components, 1, lastIndex),
                     sparse |-> RemoveSparse(ss.sparse, entity, lastEntity, index)]
       IN [set |-> after, heap |-> Collect(after, hp1), panicked |-> FALSE]

\* SparseSet.Remove: the set and heap after the call, and whether it panicked
Remove(ss, hp, entity) ==
  IF BeyondSparse(ss, entity)
  THEN [set |-> ss, heap |-> hp, panicked |-> FALSE]
  ELSE IF SparseIndexPanics(ss.sparse, entity)
  THEN [set |-> ss, heap |-> hp, panicked |-> TRUE]
  ELSE IF SparseAt(ss.sparse, int(entity)) = invalidIndex
  THEN [set |-> ss, heap |-> hp, panicked |-> FALSE]
  ELSE LET index == SparseAt(ss.sparse, int(entity))
           lastIndex == Len(ss.dense) - 1
       IN IF ~InRange(lastIndex, ss.dense) \/ ~InRange(index, ss.dense)
             \/ ~InRange(index, ss.components) \/ ~InRange(lastIndex, ss.components)
          THEN [set |-> ss, heap |-> hp, panicked |-> TRUE]
          ELSE LET lastEntity == At(ss.dense, lastIndex)
                   dense1 == [ss.dense EXCEPT ![index + 1] = lastEntity]
                   comps1 == [ss.components EXCEPT ![index + 1] = At(ss.components, lastIndex)]
                   after == [dense |-> SubSeq(dense1, 1, lastIndex),
                             components |-> SubSeq(comps1, 1, lastIndex),
                             sparse |-> RemoveSparse(ss.sparse, entity, lastEntity, index)]
               IN [set |-> after, heap |-> Collect(after, hp), panicked |-> FALSE]

----------------------------------------------------------------------------
(* What a call returns *)

\* a call that returned normally, with nothing to report
Result(op) ==
  [op |-> op, panicked |-> FALSE, found |-> FALSE, ptr |-> Nil, id |-> NoHandle, visited |-> <<>>]

----------------------------------------------------------------------------
(* The entity counter and the registry *)

Init ==
  /\ nextEntity = 0
  /\ storages = [T \in Types |-> NoSet]
  /\ heap = [T \in Types |-> [p \in Ptrs |-> Nil]]
  /\ ret = Result("NewRegistry")
  /\ held = NoRef

\* a CreateEntity that increments before it reads the counter
CreateEntityIncrementFirst ==
  /\ nextEntity < MaxCreated
  /\ nextEntity' = nextEntity + 1
  /\ ret' = [Result("CreateEntity") EXCEPT !.id = H(nextEntity')]
  /\ UNCHANGED <<storages, heap>>

CreateEntity ==
  /\ nextEntity < MaxCreated
  /\ nextEntity' = nextEntity + 1
  /\ ret' = [Result("CreateEntity") EXCEPT !.id = H(nextEntity)]
  /\ UNCHANGED <<storages, heap>>

RegisterComponent(T) ==
  /\ storages' = [storages EXCEPT ![T] = NewSparseSet]
  /\ heap' = [heap EXCEPT ![T] = [p \in Ptrs |-> Nil]]
  /\ ret' = Result("RegisterComponent")
  /\ UNCHANGED nextEntity

\* an EmplaceComponent that installs a new set whether or not one exists
EmplaceComponentFreshSet(T, entity, comp) ==
  LET r == Emplace(NewSparseSet, [p \in Ptrs |-> Nil], entity, comp)
  IN /\ storages' = [storages EXCEPT ![T] = r.set]
     /\ heap' = [heap EXCEPT ![T] = r.heap]
     /\ ret' = [Result("EmplaceComponent") EXCEPT !.panicked = r.panicked]
     /\ UNCHANGED nextEntity

EmplaceComponent(T, entity, comp) ==
  LET storage == IF storages[T] = NoSet THEN NewSparseSet ELSE storages[T]
      r == Emplace(storage, heap[T], entity, comp)
  IN /\ storages' = [storages EXCEPT ![T] = r.set]
     /\ heap' = [heap EXCEPT ![T] = r.heap]
     /\ ret' = [Result("EmplaceComponent") EXCEPT !.panicked = r.panicked]
     /\ UNCHANGED nextEntity

\* what GetComponent returns in the registry reg
GetComponentIn(reg, T, entity) ==
  IF reg[T] = NoSet
  THEN [found |-> FALSE, ptr |-> Nil, panicked |-> FALSE]
  ELSE Get(reg[T], entity)

GetComponent(T, entity) ==
  LET r == GetComponentIn(storages, T, entity)
  IN /\ ret' = [Result("GetComponent") EXCEPT
                  !.found = r.found, !.ptr = r.ptr, !.panicked = r.panicked]
     /\ UNCHANGED <<nextEntity, storages, heap>>

RemoveComponent(T, entity) ==
  LET r == IF storages[T] = NoSet
           THEN [set |-> NoSet, heap |-> heap[T], panicked |-> FALSE]
           ELSE Remove(storages[T], heap[T], entity)
  IN /\ storages' = [storages EXCEPT ![T] = r.set]
     /\ heap' = [heap EXCEPT ![T] = r.heap]
     /\ ret' = [Result("RemoveComponent") EXCEPT !.panicked = r.panicked]
     /\ UNCHANGED nextEntity

----------------------------------------------------------------------------
(* Iteration.  A visitor is the callback of the demonstration code: it     *)
(* writes through its first component reference a value computed from its  *)
(* first and its last component (t.X += rb.Vx); it emplaces and removes    *)
(* nothing.                                                                *)

Upd(a, b) == ((a + b) % Cardinality(Values)) + 1

\* the heap after f(entity, c1, ..., cn) with ci the address ptrs[i] of type Ts[i]
Visit(hp, Ts, ptrs) ==
  LET n == Len(Ts)
  IN [hp EXCEPT ![Ts[1]][ptrs[1]] = Upd(hp[Ts[1]][ptrs[1]], hp[Ts[n]][ptrs[n]])]

\* getStorage: the set of a type, or NoSet (nil)
getStorage(T) == storages[T]

\* the closure Iterate2/3/4 hand to iterateDense, applied to one entity:
\* every set is asked, and f is called when all of them answer found
TypedStep(st, Ts, entity) ==
  LET gets == [k \in 1..Len(Ts) |-> Get(getStorage(Ts[k]), entity)]
  IN IF \E k \in 1..Len(Ts) : gets[k].panicked
     THEN [st EXCEPT !.panicked = TRUE]
     ELSE IF \A k \in 1..Len(Ts) : gets[k].found
     THEN [heap |-> Visit(st.heap, Ts, [k \in 1..Len(Ts) |-> gets[k].ptr]),
           visited |-> Append(st.visited, entity),
           panicked |-> FALSE]
     ELSE st

RECURSIVE iterateDenseFrom(_, _, _, _)
iterateDenseFrom(dense, i, Ts, st) ==
  IF i > Len(dense) \/ st.panicked THEN st
  ELSE iterateDenseFrom(dense, i + 1, Ts, TypedStep(st, Ts, dense[i]))

\* a loop over the dense slice that starts at its second element
iterateDenseSkipFirst(dense, Ts) ==
  iterateDenseFrom(dense, 2, Ts, [heap |-> heap, visited |-> <<>>, panicked |-> FALSE])

\* iterateDense with the closure of the typed helpers
iterateDense(dense, Ts) ==
  iterateDenseFrom(dense, 1, Ts, [heap |-> heap, visited |-> <<>>, panicked |-> FALSE])

\* an iteration that returns before it visits anything
NoVisit == [heap |-> heap, visited |-> <<>>, panicked |-> FALSE]

Iterate2Run(T1, T2) ==
  LET s1 == getStorage(T1)
      s2 == getStorage(T2)
  IN IF s1 = NoSet \/ s2 = NoSet THEN NoVisit
     ELSE LET baseDense == IF Len(s2.dense) < Len(s1.dense) THEN s2.dense ELSE s1.dense
          IN iterateDense(baseDense, <<T1, T2>>)

\* an Iterate3 whose nil check leaves out the third set: s3.dense is then
\* read through a nil pointer
Iterate3RunUncheckedThird(T1, T2, T3) ==
  LET s1 == getStorage(T1)
      s2 == getStorage(T2)
      s3 == getStorage(T3)
  IN IF s1 = NoSet \/ s2 = NoSet THEN NoVisit
     ELSE IF s3 = NoSet THEN [NoVisit EXCEPT !.panicked = TRUE]
     ELSE LET base1 == IF Len(s2.dense) < Len(s1.dense) THEN s2.dense ELSE s1.dense
              baseDense == IF Len(s3.dense) < Len(base1) THEN s3.dense ELSE base1
          IN iterateDense(baseDense, <<T1, T2, T3>>)

Iterate3Run(T1, T2, T3) ==
  LET s1 == getStorage(T1)
      s2 == getStorage(T2)
      s3 == getStorage(T3)
  IN IF s1 = NoSet \/ s2 = NoSet \/ s3 = NoSet THEN NoVisit
     ELSE LET base1 == IF Len(s2.dense) < Len(s1.dense) THEN s2.dense ELSE s1.dense
              baseDense == IF Len(s3.dense) < Len(base1) THEN s3.dense ELSE base1
          IN iterateDense(baseDense, <<T1, T2, T3>>)

\* an Iterate4 whose comparisons let a later set of equal size drive
Iterate4RunLastOnTie(T1, T2, T3, T4) ==
  LET s1 == getStorage(T1)
      s2 == getStorage(T2)
      s3 == getStorage(T3)
      s4 == getStorage(T4)
  IN IF s1 = NoSet \/ s2 = NoSet \/ s3 = NoSet \/ s4 = NoSet THEN NoVisit
     ELSE LET base1 == IF Len(s2.dense) <= Len(s1.dense) THEN s2.dense ELSE s1.dense
              base2 == IF Len(s3.dense) <= Len(base1) THEN s3.dense ELSE base1
              baseDense == IF Len(s4.dense) <= Len(base2) THEN s4.dense ELSE base2
          IN iterateDense(baseDense, <<T1, T2, T3, T4>>)

Iterate4Run(T1, T2, T3, T4) ==
  LET s1 == getStorage(T1)
      s2 == getStorage(T2)
      s3 == getStorage(T3)
      s4 == getStorage(T4)
  IN IF s1 = NoSet \/ s2 = NoSet \/ s3 = NoSet \/ s4 = NoSet THEN NoVisit
     ELSE LET base1 == IF Len(s2.dense) < Len(s1.dense) THEN s2.dense ELSE s1.dense
              base2 == IF Len(s3.dense) < Len(base1) THEN s3.dense ELSE base1
              baseDense == IF Len(s4.dense) < Len(base2) THEN s4.dense ELSE base2
          IN iterateDense(baseDense, <<T1, T2, T3, T4>>)

IterateDone(op, r) ==
  /\ heap' = r.heap
  /\ ret' = [Result(op) EXCEPT !.visited = r.visited, !.panicked = r.panicked]
  /\ UNCHANGED <<nextEntity, storages>>

Iterate2(T1, T2) == IterateDone("Iterate2", Iterate2Run(T1, T2))

Iterate3(T1, T2, T3) == IterateDone("Iterate3", Iterate3Run(T1, T2, T3))

Iterate4(T1, T2, T3, T4) == IterateDone("Iterate4", Iterate4Run(T1, T2, T3, T4))

(* IterateReflective takes any value f.  What it reads of f is whether it  *)
(* is a function and the types of its parameters: [isFunc, params], where  *)
(* a parameter type is "Goent" or a component type T, standing for *T.     *)
(* The first parameter is a Goent or, for a visitor that is wrong there,   *)
(* a *A; the parameters after it are component references.                 *)

GoentType == "Goent"

FirstParamTypes == {GoentType, "A"}

ParamLists(n) ==
  IF n = 0 THEN {<<>>}
  ELSE {<<first>> \o rest : first \in FirstParamTypes, rest \in [1..(n - 1) -> Types]}

Signatures ==
  {[isFunc |-> FALSE, params |-> <<>>]} \cup
  {[isFunc |-> TRUE, params |-> ps] : ps \in UNION {ParamLists(n) : n \in 0..MaxParams}}

\* a first check that does not look at the type of the first parameter
BadFirstParamAnyType(f) ==
  ~f.isFunc \/ Len(f.params) < 1

\* the first check: f is a function whose first parameter is a Goent
BadFirstParam(f) ==
  ~f.isFunc \/ Len(f.params) < 1 \/ f.params[1] # GoentType

\* the component types the parameters after the first name
CompTypes(f) == [i \in 1..(Len(f.params) - 1) |-> f.params[i + 1]]

\* the sets of the component types, or NoSet for a type without one
ResolveStorages(Ts) ==
  [i \in 1..Len(Ts) |-> IF Ts[i] \in Types THEN storages[Ts[i]] ELSE NoSet]

\* the loop that picks the smallest dense array: baseIndex (from 1) after
\* the sets up to i have been looked at
\* a selection loop that lets a later set of equal size take over
RECURSIVE PickBaseLastOnTie(_, _, _, _)
PickBaseLastOnTie(sets, i, baseIndex, minLen) ==
  IF i > Len(sets) THEN baseIndex
  ELSE LET l == Len(sets[i].dense)
       IN IF l <= minLen THEN PickBaseLastOnTie(sets, i + 1, i, l)
          ELSE PickBaseLastOnTie(sets, i + 1, baseIndex, minLen)

RECURSIVE PickBase(_, _, _, _)
PickBase(sets, i, baseIndex, minLen) ==
  IF i > Len(sets) THEN baseIndex
  ELSE LET l == Len(sets[i].dense)
       IN IF l < minLen THEN PickBase(sets, i + 1, i, l)
          ELSE PickBase(sets, i + 1, baseIndex, minLen)

\* the inner loop over the sets for one entity: stops at the first set
\* that does not hold the entity
RECURSIVE GatherArgs(_, _, _, _)
GatherArgs(sets, i, entity, ptrs) ==
  IF i > Len(sets) THEN [valid |-> TRUE, ptrs |-> ptrs, panicked |-> FALSE]
  ELSE LET g == Get(sets[i], entity)
       IN IF g.panicked THEN [valid |-> FALSE, ptrs |-> ptrs, panicked |-> TRUE]
          ELSE IF ~g.found THEN [valid |-> FALSE, ptrs |-> ptrs, panicked |-> FALSE]
          ELSE GatherArgs(sets, i + 1, entity, Append(ptrs, g.ptr))

RECURSIVE ReflectiveLoop(_, _, _, _, _)
ReflectiveLoop(baseDense, i, sets, Ts, st) ==
  IF i > Len(baseDense) \/ st.panicked THEN st
  ELSE LET entity == baseDense[i]
           a == GatherArgs(sets, 1, entity, <<>>)
           st1 == IF a.panicked THEN [st EXCEPT !.panicked = TRUE]
                  ELSE IF a.valid
                  THEN [heap |-> Visit(st.heap, Ts, a.ptrs),
                        visited |-> Append(st.visited, entity),
                        panicked |-> FALSE]
                  ELSE st
       IN ReflectiveLoop(baseDense, i + 1, sets, Ts, st1)

IterateReflectiveRun(f) ==
  IF BadFirstParam(f) THEN [NoVisit EXCEPT !.panicked = TRUE]
  ELSE IF Len(f.params) - 1 = 0 THEN [NoVisit EXCEPT !.panicked = TRUE]
  ELSE LET Ts == CompTypes(f)
           sets == ResolveStorages(Ts)
       IN IF \E i \in 1..Len(Ts) : sets[i] = NoSet THEN NoVisit
          ELSE LET baseIndex == PickBase(sets, 2, 1, Len(sets[1].dense))
                   baseDense == sets[baseIndex].dense
               IN ReflectiveLoop(baseDense, 1, sets, Ts, NoVisit)

IterateReflective(f) == IterateDone("IterateReflective", IterateReflectiveRun(f))

----------------------------------------------------------------------------

\* the registry and iteration calls over the types Ty and the handles Hs
RegistryNext(Ty, Hs) ==
  \/ \E T \in Ty : RegisterComponent(T)
  \/ \E T \in Ty, entity \in Hs, comp \in Values : EmplaceComponent(T, entity, comp)
  \/ \E T \in Ty, entity \in Hs : GetComponent(T, entity)
  \/ \E T \in Ty, entity \in Hs : RemoveComponent(T, entity)
  \/ \E T1 \in Ty, T2 \in Ty : Iterate2(T1, T2)
  \/ \E T1 \in Ty, T2 \in Ty, T3 \in Ty : Iterate3(T1, T2, T3)
  \/ \E T1 \in Ty, T2 \in Ty, T3 \in Ty, T4 \in Ty : Iterate4(T1, T2, T3, T4)
  \/ \E f \in Signatures : IterateReflective(f)

\* the whole program over one component type and three storable handles
Next ==
  /\ \/ CreateEntity
     \/ RegistryNext(SetTypes, SetHandles)
  /\ UNCHANGED held

Spec == Init /\ [][Next]_vars

\* the registry over two component types and two storable handles
PairNext == RegistryNext(Types, Handles) /\ UNCHANGED held

PairSpec == Init /\ [][PairNext]_vars

----------------------------------------------------------------------------
(* A caller that keeps the reference GetComponent returned and writes      *)
(* through it later, as TestModifyComponent does (t.X += 10000).  held is  *)
(* that reference: the type and entity it was asked for and the address    *)
(* returned.  While a set's components hold the address (live), a write    *)
(* lands in the heap; once no set holds it the object is kept alive by the *)
(* caller's reference alone, and val is its value.  removed records a      *)
(* RemoveComponent of the entity since the reference was taken.            *)

\* held after a registry call that left the heap hp: the object is
\* detached when the call released its cell
Track(hp) ==
  IF held # NoRef /\ held.live /\ hp[held.T][held.ptr] = Nil
  THEN [held EXCEPT !.live = FALSE, !.val = heap[held.T][held.ptr]]
  ELSE held

\* t, ok := GetComponent[T](reg, entity), with t kept when ok
HoldComponent(T, entity) ==
  /\ GetComponent(T, entity)
  /\ held' = IF ret'.found
             THEN [T |-> T, e |-> entity, ptr |-> ret'.ptr, live |-> TRUE,
                   val |-> Nil, removed |-> FALSE]
             ELSE held

\* *t = v through the reference kept
WriteHeld(v) ==
  /\ held # NoRef
  /\ IF held.live
     THEN /\ heap' = [heap EXCEPT ![held.T][held.ptr] = v]
          /\ held' = held
     ELSE /\ heap' = heap
          /\ held' = [held EXCEPT !.val = v]
  /\ ret' = Result("WriteHeld")
  /\ UNCHANGED <<nextEntity, storages>>

RefHandles == StoredHandles

RefNext ==
  \/ \E T \in SetTypes, entity \in RefHandles : HoldComponent(T, entity)
  \/ \E v \in Values : WriteHeld(v)
  \/ \E T \in SetTypes : RegisterComponent(T) /\ held' = Track(heap')
  \/ \E T \in SetTypes, entity \in RefHandles, comp \in Values :
       EmplaceComponent(T, entity, comp) /\ held' = Track(heap')
  \/ \E T \in SetTypes, entity \in RefHandles :
       /\ RemoveComponent(T, entity)
       /\ held' = IF held # NoRef /\ held.T = T /\ held.e = entity
                  THEN [Track(heap') EXCEPT !.removed = TRUE]
                  ELSE Track(heap')
  \/ \E T1 \in SetTypes, T2 \in SetTypes : Iterate2(T1, T2) /\ held' = Track(heap')

RefSpec == Init /\ [][RefNext]_vars

----------------------------------------------------------------------------
(* Iterate2 with a visitor that removes.  The visitor is                   *)
(*   func(entity Goent, c1 *T1, c2 *T2) {                                  *)
(*     if entity != victim { RemoveComponent[D](reg, victim) } }           *)
(* The loop of iterateDense ranges over baseDense, a slice header taken    *)
(* before the first visit: its length is fixed, and each element is read   *)
(* from the backing array when its turn comes.  Remove writes              *)
(* ss.dense[index] into that same array and reslices ss.dense, so backing  *)
(* is the array under baseDense: the set's dense, then the elements past   *)
(* its length that the loop still reads.                                   *)

\* three handles within the default sparse capacity
VisitHandles == {H(0), H(1), H(alignment - 1)}

\* the one payload the entities of this specification get: the visitor
\* reads no component value
VisitValue == CHOOSE v \in Values : \A w \in Values : v <= w

\* the set's dense slice holds the entity
InDense(ss, entity) == \E k \in 1..Len(ss.dense) : ss.dense[k] = entity

\* RemoveComponent[D](reg, victim) inside the visitor
VisitorRemoves(st, base, D, victim) ==
  IF st.reg[D] = NoSet THEN st
  ELSE LET rm == Remove(st.reg[D], st.heap[D], victim)
       IN [st EXCEPT !.reg[D] = rm.set,
                     !.heap[D] = rm.heap,
                     !.panicked = rm.panicked,
                     !.backing = IF D = base
                                 THEN rm.set.dense \o
                                      SubSeq(st.backing, Len(rm.set.dense) + 1, Len(st.backing))
                                 ELSE st.backing]

\* the closure of Iterate2 applied to the element at position i
RemovingStep(st, T1, T2, base, D, victim, i) ==
  LET entity == st.backing[i]
      g1 == Get(st.reg[T1], entity)
      g2 == Get(st.reg[T2], entity)
  IN IF g1.panicked \/ g2.panicked THEN [st EXCEPT !.panicked = TRUE]
     ELSE IF g1.found /\ g2.found
     THEN LET called == [st EXCEPT
                           !.visited = Append(st.visited, entity),
                           !.heldBoth = Append(st.heldBoth,
                                               /\ InDense(st.reg[T1], entity)
                                               /\ InDense(st.reg[T2], entity))]
          IN IF entity # victim THEN VisitorRemoves(called, base, D, victim) ELSE called
     ELSE st

RECURSIVE RemovingLoop(_, _, _, _, _, _, _)
RemovingLoop(st, T1, T2, base, D, victim, i) ==
  IF i > Len(st.backing) \/ st.panicked THEN st
  ELSE RemovingLoop(RemovingStep(st, T1, T2, base, D, victim, i),
                    T1, T2, base, D, victim, i + 1)

\* the type whose dense slice Iterate2 ranges over
Iterate2Base(T1, T2) ==
  IF Len(getStorage(T2).dense) < Len(getStorage(T1).dense) THEN T2 ELSE T1

Iterate2RemovingRun(T1, T2, D, victim) ==
  LET s1 == getStorage(T1)
      s2 == getStorage(T2)
      start == [reg |-> storages, heap |-> heap, backing |-> <<>>,
                visited |-> <<>>, heldBoth |-> <<>>, panicked |-> FALSE]
  IN IF s1 = NoSet \/ s2 = NoSet THEN start
     ELSE LET base == Iterate2Base(T1, T2)
          IN RemovingLoop([start EXCEPT !.backing = getStorage(base).dense],
                          T1, T2, base, D, victim, 1)

Iterate2Removing(T1, T2, D, victim) ==
  LET r == Iterate2RemovingRun(T1, T2, D, victim)
  IN /\ storages' = r.reg
     /\ heap' = r.heap
     /\ ret' = [Result("Iterate2Removing") EXCEPT
                  !.visited = r.visited, !.panicked = r.panicked]
     /\ UNCHANGED <<nextEntity, held>>

VisitorNext ==
  \/ \E T \in Types, entity \in VisitHandles :
       EmplaceComponent(T, entity, VisitValue) /\ UNCHANGED held
  \/ \E T1 \in Types, T2 \in Types, victim \in VisitHandles :
       /\ getStorage(T1) # NoSet /\ getStorage(T2) # NoSet
       /\ Iterate2Removing(T1, T2, Iterate2Base(T1, T2), victim)

VisitorSpec == Init /\ [][VisitorNext]_vars

----------------------------------------------------------------------------
(* Properties *)

\* the entities a set holds
Holders(ss) == {ss.dense[i] : i \in 1..Len(ss.dense)}

\* entity e holds a component of type T in the registry reg
HoldsIn(reg, T, e) == reg[T] # NoSet /\ e \in Holders(reg[T])

\* what a caller of GetComponent sees: found, the value read through the
\* reference, and whether the call panicked
SeenIn(reg, hp, T, e) ==
  LET g == GetComponentIn(reg, T, e)
  IN [found |-> g.found,
      val |-> IF g.found THEN hp[T][g.ptr] ELSE Nil,
      panicked |-> g.panicked]

NotFound == [found |-> FALSE, val |-> Nil, panicked |-> FALSE]

Found(v) == [found |-> TRUE, val |-> v, panicked |-> FALSE]

\* the unsigned handle e is at or beyond the sparse capacity of ss
AtOrBeyondCapacity(ss, e) == e.top = 1 \/ e.low >= SparseLen(ss.sparse)

WellFormed(ss) ==
  /\ Len(ss.dense) = Len(ss.components)
  /\ \A i \in 0..(Len(ss.dense) - 1) :
       /\ ~AtOrBeyondCapacity(ss, ss.dense[i + 1])
       /\ SparseAt(ss.sparse, ss.dense[i + 1].low) = i
  /\ DOMAIN ss.sparse.at \subseteq 0..(SparseLen(ss.sparse) - 1)
  /\ \A e \in 0..(SparseLen(ss.sparse) - 1) :
       \/ SparseAt(ss.sparse, e) = invalidIndex
       \/ /\ SparseAt(ss.sparse, e) \in 0..(Len(ss.dense) - 1)
          /\ ss.dense[SparseAt(ss.sparse, e) + 1] = H(e)
  /\ \A i, j \in 1..Len(ss.dense) : ss.dense[i] = ss.dense[j] => i = j

\* C1: after any sequence of Emplace and Remove calls every sparse set has
\* len(dense) = len(components), sparse[dense[i]] = i for every dense index,
\* every sparse entry either the absent marker or the index of its own
\* entity in dense, and no entity twice in dense.
C1_SetInvariant == \A T \in Types : storages[T] # NoSet => WellFormed(storages[T])

\* a set that a swap-with-last removal has compacted after a growth: the
\* component allocated third sits at index 0
C1_Witness ==
  /\ storages["A"] # NoSet
  /\ storages["A"].dense = <<H(alignment), H(1)>>
  /\ storages["A"].components = <<3, 2>>

\* C2: for every entity e, through any sequence of Emplace and Remove calls
\* on a set, calls on other entities included, Get(e) returns found with the
\* value of the most recent Emplace(e, v) that no Remove(e) followed, and
\* not-found when the last call on e was Remove(e) or e was never emplaced.
\* Stated step by step: nothing is found to begin with; Emplace(e, v) makes
\* Get(e) return v; Remove(e) makes it return not-found; a call on another
\* entity leaves what Get(e) returns as it was.
C2_GetReflectsLatest ==
  /\ \A T \in SetTypes, e \in SetHandles : SeenIn(storages, heap, T, e) = NotFound
  /\ [][/\ ret'.op = "EmplaceComponent" =>
             \A T \in SetTypes, e \in SetHandles, v \in Values :
               EmplaceComponent(T, e, v) =>
                 /\ SeenIn(storages', heap', T, e) = Found(v)
                 /\ \A e2 \in SetHandles \ {e} :
                      SeenIn(storages', heap', T, e2) = SeenIn(storages, heap, T, e2)
        /\ ret'.op = "RemoveComponent" =>
             \A T \in SetTypes, e \in SetHandles :
               RemoveComponent(T, e) =>
                 /\ SeenIn(storages', heap', T, e) = NotFound
                 /\ \A e2 \in SetHandles \ {e} :
                      SeenIn(storages', heap', T, e2) = SeenIn(storages, heap, T, e2)]_vars

\* the entities that hold every component type of Ts
HoldAll(Ts) ==
  {e \in Handles : \A k \in 1..Len(Ts) : HoldsIn(storages, Ts[k], e)}

\* the sequence names exactly the entities of S, each once
ExactlyOnce(visited, S) ==
  /\ {visited[i] : i \in 1..Len(visited)} = S
  /\ Len(visited) = Cardinality(S)

AllRegistered(Ts) == \A k \in 1..Len(Ts) : storages[Ts[k]] # NoSet

\* C3: when every requested type has a sparse set, Iterate2, Iterate3 and
\* Iterate4 call the visitor exactly once for each entity that holds all the
\* requested types and for no other entity, whichever set is the smallest
\* and also when sizes are equal.
C3_IterateVisitsExactlyHolders ==
  /\ \A T1, T2 \in Types :
       AllRegistered(<<T1, T2>>) =>
         LET r == Iterate2Run(T1, T2)
         IN ~r.panicked /\ ExactlyOnce(r.visited, HoldAll(<<T1, T2>>))
  /\ \A T1, T2, T3 \in Types :
       AllRegistered(<<T1, T2, T3>>) =>
         LET r == Iterate3Run(T1, T2, T3)
         IN ~r.panicked /\ ExactlyOnce(r.visited, HoldAll(<<T1, T2, T3>>))
  /\ \A T1, T2, T3, T4 \in Types :
       AllRegistered(<<T1, T2, T3, T4>>) =>
         LET r == Iterate4Run(T1, T2, T3, T4)
         IN ~r.panicked /\ ExactlyOnce(r.visited, HoldAll(<<T1, T2, T3, T4>>))

\* an Iterate3 call has visited the one entity two sets share, the set that
\* drove it being the smaller one, and skipped the entity only one set holds
C3_Witness ==
  /\ ret.op = "Iterate3"
  /\ ret.visited = <<H(alignment)>>
  /\ storages["A"] # NoSet /\ storages["A"].dense = <<H(0), H(alignment)>>
  /\ storages["B"] # NoSet /\ storages["B"].dense = <<H(alignment)>>

\* the visitor func(Goent, *T1, *T2)
Visitor2(T1, T2) == [isFunc |-> TRUE, params |-> <<GoentType, T1, T2>>]

\* C4: in the same registry state IterateReflective with a visitor
\* (Goent, *A, *B) calls the visitor on the same entities in the same order
\* and leaves the same component values as Iterate2[A, B], also when A or B
\* has no sparse set.
C4_ReflectiveMatchesIterate2 ==
  \A T1, T2 \in Types : IterateReflectiveRun(Visitor2(T1, T2)) = Iterate2Run(T1, T2)

\* a reflective iteration has visited two entities that the two sets hold in
\* opposite dense orders
C4_Witness ==
  /\ ret.op = "IterateReflective"
  /\ Len(ret.visited) = 2
  /\ storages["A"] # NoSet /\ storages["A"].dense = <<H(0), H(alignment)>>
  /\ storages["B"] # NoSet /\ storages["B"].dense = <<H(alignment), H(0)>>

\* C5: once a sparse set for T exists every later registry call on T
\* resolves to that same set, so a component emplaced for e before a
\* RegisterComponent[T] call is still returned by GetComponent[T](e) after it.
C5_SetSurvivesRegister ==
  [][ret'.op = "RegisterComponent" =>
       \A T \in SetTypes :
         RegisterComponent(T) =>
           \A e \in SetHandles :
             SeenIn(storages, heap, T, e).found =>
               SeenIn(storages', heap', T, e) = SeenIn(storages, heap, T, e)]_vars

\* C6: Emplace(e, v) with e at or beyond the sparse capacity leaves dense,
\* components and every sparse entry below the old capacity as they were
\* (the new entity is appended after them), leaves every new sparse slot
\* other than e's absent, and every entity present before is still found
\* with its previous value.
C6_GrowthKeepsEntries ==
  [][ret'.op = "EmplaceComponent" =>
       \A T \in SetTypes, e \in SetHandles, v \in Values :
         (/\ EmplaceComponent(T, e, v)
          /\ storages[T] # NoSet
          /\ AtOrBeyondCapacity(storages[T], e)) =>
           LET old == storages[T]
               new == storages'[T]
           IN /\ Len(new.dense) >= Len(old.dense)
              /\ SubSeq(new.dense, 1, Len(old.dense)) = old.dense
              /\ Len(new.components) >= Len(old.components)
              /\ SubSeq(new.components, 1, Len(old.components)) = old.components
              /\ SparseLen(new.sparse) >= SparseLen(old.sparse)
              /\ \A i \in 0..(SparseLen(old.sparse) - 1) :
                   SparseAt(new.sparse, i) = SparseAt(old.sparse, i)
              /\ \A i \in SparseLen(old.sparse)..(SparseLen(new.sparse) - 1) :
                   H(i) # e => SparseAt(new.sparse, i) = invalidIndex
              /\ \A e2 \in Holders(old) :
                   /\ SeenIn(storages, heap, T, e2).found
                   /\ SeenIn(storages', heap', T, e2) = SeenIn(storages, heap, T, e2)]_vars

\* an Emplace has grown the sparse index of a set that held two entities
C6_Witness ==
  /\ ret.op = "EmplaceComponent"
  /\ storages["A"] # NoSet
  /\ SparseLen(storages["A"].sparse) = 2 * alignment
  /\ storages["A"].dense = <<H(0), H(1), H(alignment)>>

\* the number of times e occurs in dense
Occurrences(dense, e) == Cardinality({i \in 1..Len(dense) : dense[i] = e})

\* C7: Emplace(e, v) on an entity that already holds a component leaves
\* len(dense), len(components), the contents of dense and every sparse entry
\* unchanged; Emplace(e, v) twice in a row gives the set state of one call,
\* with e exactly once in dense.
C7_EmplaceExistingKeepsStructure ==
  /\ [](\A T \in SetTypes, e \in SetHandles, v \in Values :
          storages[T] # NoSet =>
            LET once == Emplace(storages[T], heap[T], e, v)
                twice == Emplace(once.set, once.heap, e, v)
            IN /\ twice.set = once.set
               /\ twice.heap = once.heap
               /\ ~once.panicked => Occurrences(twice.set.dense, e) = 1)
  /\ [][ret'.op = "EmplaceComponent" =>
          \A T \in SetTypes, e \in SetHandles, v \in Values :
            (EmplaceComponent(T, e, v) /\ HoldsIn(storages, T, e)) =>
              /\ storages'[T].dense = storages[T].dense
              /\ Len(storages'[T].components) = Len(storages[T].components)
              /\ storages'[T].sparse = storages[T].sparse
              /\ Occurrences(storages'[T].dense, e) = 1]_vars

\* an Emplace has returned normally and left a set whose only component is
\* the second one allocated: the call wrote to an entity that was present
C7_Witness ==
  /\ ret.op = "EmplaceComponent"
  /\ ~ret.panicked
  /\ storages["A"] # NoSet
  /\ storages["A"].dense = <<H(1)>>
  /\ storages["A"].components = <<2>>

\* C8: RemoveComponent[T](e) when e holds no T component, because T has no
\* sparse set, because e is at or beyond the sparse capacity or because
\* sparse[e] is the absent marker, does not panic and leaves the registry
\* unchanged: no set is created and every set is as before.
C8_RemoveAbsentIsNoOp ==
  [][ret'.op = "RemoveComponent" =>
       \A T \in SetTypes, e \in SetHandles :
         (RemoveComponent(T, e) /\ ~HoldsIn(storages, T, e)) =>
           /\ ~ret'.panicked
           /\ storages' = storages
           /\ heap' = heap]_vars

\* f passes the signature check of IterateReflective
WellFormedVisitor(f) ==
  f.isFunc /\ Len(f.params) >= 2 /\ f.params[1] = GoentType

\* a type the registry has no sparse set for
Unregistered(T) == T \notin Types \/ storages[T] = NoSet

NothingVisited ==
  /\ ret'.visited = <<>>
  /\ ~ret'.panicked
  /\ UNCHANGED <<storages, heap, nextEntity>>

\* C9: when a component type requested by Iterate2, Iterate3, Iterate4 or
\* IterateReflective (with a well-formed visitor) has no sparse set, the
\* call visits nothing, does not panic and leaves the registry unchanged,
\* however many entities the other requested sets hold.
C9_MissingSetVisitsNothing ==
  [][/\ ret'.op = "Iterate2" =>
          \A T1, T2 \in Types :
            ((\E T \in {T1, T2} : Unregistered(T)) /\ Iterate2(T1, T2)) => NothingVisited
     /\ ret'.op = "Iterate3" =>
          \A T1, T2, T3 \in Types :
            ((\E T \in {T1, T2, T3} : Unregistered(T)) /\ Iterate3(T1, T2, T3))
              => NothingVisited
     /\ ret'.op = "Iterate4" =>
          \A T1, T2, T3, T4 \in Types :
            ((\E T \in {T1, T2, T3, T4} : Unregistered(T)) /\ Iterate4(T1, T2, T3, T4))
              => NothingVisited
     /\ ret'.op = "IterateReflective" =>
          \A f \in Signatures :
            (/\ WellFormedVisitor(f)
             /\ \E i \in 2..Len(f.params) : Unregistered(f.params[i])
             /\ IterateReflective(f))
              => NothingVisited]_vars

\* an Iterate3 call has visited nothing in a registry where one type has no
\* sparse set and the other holds two entities
C9_Witness ==
  /\ ret.op = "Iterate3"
  /\ ret.visited = <<>>
  /\ ~ret.panicked
  /\ storages["B"] = NoSet
  /\ storages["A"] # NoSet /\ Len(storages["A"].dense) = 2

\* the visitor's first parameter is not a Goent, or it declares no
\* component parameter
Malformed(f) ==
  \/ ~f.isFunc
  \/ Len(f.params) = 0
  \/ f.params[1] # GoentType
  \/ Len(f.params) = 1

\* C10: IterateReflective panics whenever the visitor's first parameter is
\* not the entity handle type or the visitor declares no component
\* parameter, before any sparse set is resolved and so also on an empty
\* registry; the visitor is not called and the registry is unchanged.
C10_MalformedVisitorPanics ==
  [][ret'.op = "IterateReflective" =>
       \/ /\ ret'.panicked
          /\ ret'.visited = <<>>
          /\ UNCHANGED <<storages, heap, nextEntity>>
       \/ \A f \in Signatures : Malformed(f) => ~IterateReflective(f)]_vars

\* IterateReflective has panicked on a registry without any sparse set
C10_Witness ==
  /\ ret.op = "IterateReflective"
  /\ ret.panicked
  /\ \A T \in Types : storages[T] = NoSet

\* C11: the n-th call to CreateEntity, n counted from 0, returns handle n,
\* so the handles returned are strictly increasing from 0 and no two calls
\* return the same one; no registry or sparse-set call changes the counter.
\* Stated step by step: the counter starts at 0, a CreateEntity call
\* returns the counter's value and adds one to it, and every other call
\* leaves the counter as it was.
C11_CreateEntityCounts ==
  /\ nextEntity = 0
  /\ [][IF ret'.op = "CreateEntity"
        THEN ret'.id = H(nextEntity) /\ nextEntity' = nextEntity + 1
        ELSE nextEntity' = nextEntity]_vars

\* the second call of CreateEntity has returned handle 1, with a component
\* stored in between
C11_Witness ==
  /\ ret.op = "CreateEntity"
  /\ ret.id = H(1)
  /\ nextEntity = 2
  /\ storages["A"] # NoSet /\ Len(storages["A"].dense) > 0

\* C12: the reference GetComponent[T](e) returned, and the references an
\* iteration visitor is passed, alias live storage: a value written through
\* one is what the next GetComponent[T](e) returns, provided no Remove of e
\* happened since the reference was taken, and the write changes no other
\* entity's component.
C12_ReferenceAliasesStorage ==
  [][/\ ret'.op = "WriteHeld" =>
          \A v \in Values :
            (~held.removed /\ WriteHeld(v)) =>
              /\ SeenIn(storages', heap', held.T, held.e) = Found(v)
              /\ \A e2 \in RefHandles \ {held.e} :
                   SeenIn(storages', heap', held.T, e2) = SeenIn(storages, heap, held.T, e2)
     /\ ret'.op = "Iterate2" =>
          \A T1, T2 \in SetTypes :
            Iterate2(T1, T2) =>
              \A e \in RefHandles :
                IF \E i \in 1..Len(ret'.visited) : ret'.visited[i] = e
                THEN SeenIn(storages', heap', T1, e) =
                       Found(Upd(SeenIn(storages, heap, T1, e).val,
                                 SeenIn(storages, heap, T2, e).val))
                ELSE SeenIn(storages', heap', T1, e) = SeenIn(storages, heap, T1, e)]_vars

\* C13: GetComponent[T](e) returns not-found, without panicking and without
\* changing the registry (no sparse set is created for T), whenever T has no
\* sparse set or e holds no T component.
C13_GetAbsentIsNotFound ==
  [][ret'.op = "GetComponent" =>
       \A T \in SetTypes, e \in SetHandles :
         (GetComponent(T, e) /\ ~HoldsIn(storages, T, e)) =>
           /\ ~ret'.panicked
           /\ ~ret'.found
           /\ ret'.ptr = Nil
           /\ storages' = storages
           /\ heap' = heap]_vars

\* the dense index (from 0) of an entity the set holds
IndexOf(ss, e) == CHOOSE i \in 0..(Len(ss.dense) - 1) : ss.dense[i + 1] = e

\* the value of the component at dense index i (from 0)
ValueAt(ss, hp, i) == hp[ss.components[i + 1]]

\* C14: Remove(e) on an entity at dense index i of a set with n entries
\* gives a set with n-1 entries in which the entity that was at index n-1
\* sits at index i with its own component value (nothing moves when
\* i = n-1), every other remaining entity keeps its dense index and its
\* component value, and sparse[e] is the absent marker; also when e is the
\* last or the only element.
C14_RemoveSwapsWithLast ==
  [][ret'.op = "RemoveComponent" =>
       \A T \in SetTypes, e \in SetHandles :
         (HoldsIn(storages, T, e) /\ RemoveComponent(T, e)) =>
           LET old == storages[T]
               new == storages'[T]
               n == Len(old.dense)
               i == IndexOf(old, e)
           IN /\ ~ret'.panicked
              /\ Len(new.dense) = n - 1
              /\ Len(new.components) = n - 1
              /\ i # n - 1 =>
                   /\ new.dense[i + 1] = old.dense[n]
                   /\ ValueAt(new, heap'[T], i) = ValueAt(old, heap[T], n - 1)
              /\ \A j \in 0..(n - 2) :
                   j # i =>
                     /\ new.dense[j + 1] = old.dense[j + 1]
                     /\ ValueAt(new, heap'[T], j) = ValueAt(old, heap[T], j)
              /\ SparseLen(new.sparse) = SparseLen(old.sparse)
              /\ SparseAt(new.sparse, int(e)) = invalidIndex]_vars

\* a Remove of the first of three entities has moved the last one, with
\* the value 2 it held, to index 0 and left the middle one where it was
C14_Witness ==
  /\ ret.op = "RemoveComponent"
  /\ storages["A"] # NoSet
  /\ storages["A"].dense = <<H(alignment), H(0)>>
  /\ storages["A"].components = <<3, 2>>
  /\ heap["A"][3] = 2 /\ heap["A"][2] = 1

\* the earliest-listed type of Ts among those whose set has the fewest entries
DrivingType(Ts) ==
  LET size(k) == Len(storages[Ts[k]].dense)
  IN Ts[CHOOSE k \in 1..Len(Ts) :
          /\ \A j \in 1..Len(Ts) : size(k) <= size(j)
          /\ \A j \in 1..(k - 1) : size(j) > size(k)]

\* the dense order of the driving set, restricted to the entities that
\* hold every type of Ts
DrivingOrder(Ts) ==
  LET holders == HoldAll(Ts)
      Keeps(e) == e \in holders
  IN SelectSeq(storages[DrivingType(Ts)].dense, Keeps)

\* C15: for Iterate2/3/4 and IterateReflective (the visitor emplaces and
\* removes nothing) the sequence of visited entities is the dense order, at
\* call time, of the requested set with the fewest entries, restricted to
\* the entities holding all requested components; among sets that tie for
\* the fewest entries the one of the earliest-listed type drives.
C15_VisitOrderFollowsSmallest ==
  /\ \A T1, T2 \in Types :
       AllRegistered(<<T1, T2>>) =>
         Iterate2Run(T1, T2).visited = DrivingOrder(<<T1, T2>>)
  /\ \A T1, T2, T3 \in Types :
       AllRegistered(<<T1, T2, T3>>) =>
         Iterate3Run(T1, T2, T3).visited = DrivingOrder(<<T1, T2, T3>>)
  /\ \A T1, T2, T3, T4 \in Types :
       AllRegistered(<<T1, T2, T3, T4>>) =>
         Iterate4Run(T1, T2, T3, T4).visited = DrivingOrder(<<T1, T2, T3, T4>>)
  /\ \A f \in Signatures :
       (WellFormedVisitor(f) /\ AllRegistered(CompTypes(f))) =>
         IterateReflectiveRun(f).visited = DrivingOrder(CompTypes(f))

\* an Iterate4 call over two sets of equal size that hold the same two
\* entities in opposite orders has visited them in the order of one of them
C15_Witness ==
  /\ ret.op = "Iterate4"
  /\ ret.visited = <<H(alignment), H(0)>>
  /\ storages["A"] # NoSet /\ storages["A"].dense = <<H(alignment), H(0)>>
  /\ storages["B"] # NoSet /\ storages["B"].dense = <<H(0), H(alignment)>>

\* C16: Emplace(e, v) on an entity that already holds a component writes v
\* into the existing backing slot: e keeps its dense index, the reference
\* Get(e) returned before the call is the one it returns afterwards and
\* reads v, and the components of all other entities are unchanged.
C16_EmplaceOverwritesInPlace ==
  [][ret'.op = "EmplaceComponent" =>
       \A T \in SetTypes, e \in SetHandles, v \in Values :
         (HoldsIn(storages, T, e) /\ EmplaceComponent(T, e, v)) =>
           LET before == Get(storages[T], e)
               after == Get(storages'[T], e)
           IN /\ ~ret'.panicked
              /\ before.found /\ after.found
              /\ after.ptr = before.ptr
              /\ heap'[T][before.ptr] = v
              /\ IndexOf(storages'[T], e) = IndexOf(storages[T], e)
              /\ \A e2 \in Holders(storages[T]) \ {e} :
                   /\ Get(storages'[T], e2) = Get(storages[T], e2)
                   /\ SeenIn(storages', heap', T, e2) = SeenIn(storages, heap, T, e2)]_vars

\* an Emplace has returned normally and left two entities of which the
\* first has the slot allocated third and the value 2: the call allocated
\* nothing, so it wrote to an entity that was present, after a removal had
\* moved that entity
C16_Witness ==
  /\ ret.op = "EmplaceComponent"
  /\ ~ret.panicked
  /\ storages["A"] # NoSet
  /\ storages["A"].dense = <<H(alignment), H(0)>>
  /\ storages["A"].components = <<3, 2>>
  /\ heap["A"][3] = 2

\* C17: for every 64-bit unsigned handle e that is at or beyond the set's
\* sparse capacity, the values from 2^63 on included, whose conversion to
\* int is negative, SparseSet.Get(e) returns not-found and
\* SparseSet.Remove(e) is a no-op, without a panic or an index outside the
\* sparse array.
C17_BeyondCapacityIsAbsent ==
  \A T \in SetTypes, e \in SetHandles :
    (storages[T] # NoSet /\ AtOrBeyondCapacity(storages[T], e)) =>
      /\ Get(storages[T], e) = [found |-> FALSE, ptr |-> Nil, panicked |-> FALSE]
      /\ Remove(storages[T], heap[T], e) =
           [set |-> storages[T], heap |-> heap[T], panicked |-> FALSE]

\* the keys of the registry's type-to-set map
Keys(reg) == {U \in Types : reg[U] # NoSet}

\* the sets of the types other than T are as they were
OthersUnchanged(T) ==
  \A U \in Types \ {T} : storages'[U] = storages[U] /\ heap'[U] = heap[U]

\* C18: EmplaceComponent[T], RemoveComponent[T] and GetComponent[T] leave
\* the sparse set of every other type U # T unchanged (dense, components and
\* sparse contents); EmplaceComponent[T] adds at most the key T to the
\* registry's map and never removes or replaces an existing entry: a set
\* that existed keeps the entities it held.
C18_OtherTypesUntouched ==
  [][/\ ret'.op = "EmplaceComponent" =>
          \A T \in Types, e \in Handles, v \in Values :
            EmplaceComponent(T, e, v) =>
              /\ OthersUnchanged(T)
              /\ Keys(storages') = Keys(storages) \cup {T}
              /\ storages[T] # NoSet =>
                   /\ Len(storages'[T].dense) >= Len(storages[T].dense)
                   /\ SubSeq(storages'[T].dense, 1, Len(storages[T].dense)) = storages[T].dense
                   /\ SubSeq(storages'[T].components, 1, Len(storages[T].components))
                        = storages[T].components
     /\ ret'.op = "RemoveComponent" =>
          \A T \in Types, e \in Handles :
            RemoveComponent(T, e) => OthersUnchanged(T) /\ Keys(storages') = Keys(storages)
     /\ ret'.op = "GetComponent" =>
          \A T \in Types, e \in Handles :
            GetComponent(T, e) => OthersUnchanged(T) /\ Keys(storages') = Keys(storages)]_vars

\* an EmplaceComponent on B has added a second entity to the set of B
\* while the set of A holds two entities
C18_Witness ==
  /\ ret.op = "EmplaceComponent"
  /\ ~ret.panicked
  /\ storages["A"] # NoSet /\ storages["A"].dense = <<H(0), H(alignment)>>
  /\ storages["B"] # NoSet /\ storages["B"].dense = <<H(alignment), H(0)>>
  /\ storages["B"].components = <<2, 1>>

\* every entity of keep that the set of T held before the step is still
\* found, at the address Get returned for it before
ReferencesKept(T, keep) ==
  \A e \in Holders(storages[T]) \cap keep :
    /\ Get(storages[T], e).found
    /\ Get(storages'[T], e) = Get(storages[T], e)

\* C20: the reference Get(e) returns keeps referring to the component the
\* set holds for e for as long as e is not removed: after any sequence of
\* Remove calls on other entities, those that move e to another dense index
\* included, and of Emplace calls, those that grow the sparse index
\* included, Get(e) returns that same reference.  Stated step by step: a
\* Remove of another entity and an Emplace of any entity leave the
\* reference Get(e) returns as it was.
C20_ReferenceStable ==
  [][/\ ret'.op = "RemoveComponent" =>
          \A T \in SetTypes, e2 \in SetHandles :
            (storages[T] # NoSet /\ RemoveComponent(T, e2)) =>
              ReferencesKept(T, SetHandles \ {e2})
     /\ ret'.op = "EmplaceComponent" =>
          \A T \in SetTypes, e2 \in SetHandles, v \in Values :
            (storages[T] # NoSet /\ EmplaceComponent(T, e2, v)) =>
              ReferencesKept(T, SetHandles)]_vars

\* a Remove has moved the entity emplaced third, with its component
\* address, to dense index 0 of a set whose sparse index had grown
C20_Witness ==
  /\ ret.op = "RemoveComponent"
  /\ storages["A"] # NoSet
  /\ storages["A"].dense = <<H(1), H(alignment)>>
  /\ storages["A"].components = <<3, 2>>
  /\ SparseLen(storages["A"].sparse) = 2 * alignment

\* no entity occurs twice in the sequence
NoRepeat(visited) ==
  \A i, j \in 1..Len(visited) : visited[i] = visited[j] => i = j

\* C19: during one Iterate2 call whose visitor calls RemoveComponent on the
\* driving (smallest) set for an entity other than the one being visited,
\* the visitor is still invoked at most once per entity, and only for
\* entities that hold both components at the moment of the invocation.
C19_RemovingVisitorVisitsOnce ==
  \A T1, T2 \in Types :
    (T1 # T2 /\ AllRegistered(<<T1, T2>>)) =>
      \A victim \in VisitHandles :
        LET r == Iterate2RemovingRun(T1, T2, Iterate2Base(T1, T2), victim)
        IN /\ ~r.panicked
           /\ NoRepeat(r.visited)
           /\ \A i \in 1..Len(r.heldBoth) : r.heldBoth[i]

====
